---- MODULE Spec2Model ----
(***************************************************************************)
(* Privacy-popup Shopify app: webhook ingress and verification, the        *)
(* subscription state reconciler, the billing subscribe / cancel routes,   *)
(* the settings authorization gate and the uninstall purge, over the       *)
(* Prisma tables Shop, Subscription, Setting, AuditLog and Session.        *)
(*                                                                         *)
(* Every route handler is a sequence of steps: one per awaited database    *)
(* write or provider call and one per read whose result guards a later     *)
(* write; the session and shop lookups that open an admin route are taken  *)
(* with the step that receives the request, and the synchronous code       *)
(* between two awaits belongs to the step that precedes it.  A request     *)
(* occupies a slot of req from the step that receives it to the step that  *)
(* sets its response.                                                      *)
(***************************************************************************)
EXTENDS Integers, Sequences, FiniteSets, TLC

\* ------------------------------------------------------------------ bounds
MaxSubs == 2
MaxAudit == 1
MaxTimers == 2
MaxDay == 2

\* --------------------------------------------------------------- constants
\* base64 of a SHA-256 digest: 4 * ceil(32 / 3) characters
DigestLen == 44

SHOPIFY_API_SECRET == "api_secret"
OtherSecret == "other_secret"

ShopDomains == {"a.myshopify.com", "b.myshopify.com"}
NoDomain == "(no domain)"
ShopNames == {"Shop One", "Shop Two"}

SubIds == 1..MaxSubs
NoSub == [shopId |-> NoDomain]
NoShop == [id |-> NoDomain]
NoSetting == [absent |-> TRUE]
NoDate == "(no date)"
BillingDates == {"2026-12-01"}
NoHeader == [absent |-> TRUE]
None == [none |-> TRUE]

SubscriptionStatus == {"PENDING", "ACTIVE", "CANCELLED", "EXPIRED", "FROZEN", "PAUSED"}

\* provider status strings delivered by app_subscriptions/update
ProviderStatuses ==
  {"pending", "active", "cancelled", "expired", "frozen", "paused", "declined",
   "unforeseen_status", "constructor"}

\* names every JavaScript object literal inherits from Object.prototype
ObjectPrototypeKeys ==
  {"constructor", "toString", "valueOf", "hasOwnProperty", "isPrototypeOf",
   "propertyIsEnumerable", "toLocaleString", "__proto__"}

SettingKeys == {"popup_settings", "theme_info", "theme_change_notification"}

DefaultBgColor == "#ffffff"
DefaultTextColor == "#333333"
DefaultLinkColor == "#007ace"

VARIABLES shops, subscriptions, settings, auditLog, sessions, issued, req

\* the server process: which of the environment variables are set, and how
\* far the evaluation of lib/shopify.ts has come
VARIABLES env, loaded

\* the server's clock, in days
VARIABLES now

\* history: how many times a stored subscription status has changed from
\* PENDING to ACTIVE
VARIABLES activations

\* the storefront page: the PrivacyPopup instance with its container, the
\* browser's localStorage, and the last thing that happened on the page
VARIABLES widget, localStorage, last

serverVars == <<shops, subscriptions, settings, auditLog, sessions, issued, req>>

bootVars == <<env, loaded>>

widgetVars == <<widget, localStorage, last>>

\* what the route handlers leave alone
otherVars == <<bootVars, widgetVars, now, activations>>

vars == <<serverVars, otherVars>>

db == [shops |-> shops, subscriptions |-> subscriptions, settings |-> settings,
       auditLog |-> auditLog, sessions |-> sessions]

\* ----------------------------------------------------------- verification
\* crypto.createHmac('sha256', key).update(data).digest('base64'): a string
\* of DigestLen characters determined by the key and the data
hmacBase64(data, key) == [len |-> DigestLen, mac |-> <<key, data>>]

\* crypto.timingSafeEqual: throws RangeError when the byte lengths differ
timingSafeEqual(a, b) ==
  IF a.len # b.len THEN "RangeError"
  ELSE IF a = b THEN "true" ELSE "false"

\* a verification that compares the lengths of the digests only
verifyWebhookSignatureLengthOnly(data, signature) ==
  IF signature.len = DigestLen THEN "true" ELSE "RangeError"

verifyWebhookSignature(data, signature) ==
  timingSafeEqual(hmacBase64(data, SHOPIFY_API_SECRET), signature)

\* the values an x-shopify-hmac-sha256 header can carry for a body
SignatureHeaders(data) ==
  { NoHeader,
    [len |-> 0, mac |-> <<>>],
    hmacBase64(data, SHOPIFY_API_SECRET),
    hmacBase64(data, OtherSecret),
    [len |-> DigestLen - 1, mac |-> <<"truncated">>] }

\* ------------------------------------------------------------ data access
findShopByDomain(domain) ==
  IF domain \in ShopDomains THEN shops[domain] ELSE NoShop

ActiveSubs(shopId) ==
  {s \in SubIds : subscriptions[s] # NoSub
                  /\ subscriptions[s].shopId = shopId
                  /\ subscriptions[s].status = "ACTIVE"}

\* findFirst where status ACTIVE, orderBy createdAt desc: ids are issued in
\* creation order, so the newest is the largest id
getActiveSubscription(shopId) ==
  IF ActiveSubs(shopId) = {} THEN None
  ELSE LET id == CHOOSE s \in ActiveSubs(shopId) :
                   \A t \in ActiveSubs(shopId) : t <= s
       IN  [id |-> id, shopId |-> shopId, status |-> subscriptions[id].status]

\* an audit write that keeps one entry per log, overwriting the newest
createAuditLogOverwriting(log, shopId, action, resourceId, details) ==
  LET entry == [shopId |-> shopId, action |-> action,
                resourceId |-> resourceId, details |-> details]
  IN  IF log = <<>> THEN <<entry>> ELSE [log EXCEPT ![Len(log)] = entry]

createAuditLog(log, shopId, action, resourceId, details) ==
  Append(log, [shopId |-> shopId, action |-> action,
               resourceId |-> resourceId, details |-> details])

\* statusMapping[status] || 'PENDING': a lookup in an object literal, which
\* also finds the properties the literal inherits; those are truthy and are
\* no member of the SubscriptionStatus enum
\* a table that treats a declined charge as expired
statusMappingDeclinedExpired(status) ==
  CASE status = "pending" -> "PENDING"
    [] status = "active" -> "ACTIVE"
    [] status = "cancelled" -> "CANCELLED"
    [] status = "expired" -> "EXPIRED"
    [] status = "frozen" -> "FROZEN"
    [] status = "paused" -> "PAUSED"
    [] status = "declined" -> "EXPIRED"
    [] OTHER -> "PENDING"

statusMapping(status) ==
  CASE status = "pending" -> "PENDING"
    [] status = "active" -> "ACTIVE"
    [] status = "cancelled" -> "CANCELLED"
    [] status = "expired" -> "EXPIRED"
    [] status = "frozen" -> "FROZEN"
    [] status = "paused" -> "PAUSED"
    [] status = "declined" -> "CANCELLED"
    [] status \in ObjectPrototypeKeys -> "(inherited property)"
    [] OTHER -> "PENDING"

\* ---------------------------------------------------------------- requests
IdleReq ==
  [kind |-> "none", pc |-> "idle", shop |-> NoDomain, payload |-> None,
   header |-> None, found |-> None, newStatus |-> "",
   provider |-> "", calls |-> 0, code |-> 0, resp |-> "", pre |-> None,
   replay |-> None]

Free(r) == req[r].pc = "idle"

\* the response has been sent: the invocation ends and its locals are gone
Reply(r) ==
  /\ req[r].pc = "done"
  /\ req' = [req EXCEPT ![r] = IdleReq]
  /\ UNCHANGED <<shops, subscriptions, settings, auditLog, sessions, issued>>

Respond(r, code, resp) ==
  req' = [req EXCEPT ![r].pc = "done", ![r].code = code, ![r].resp = resp]

Goto(r, pc) == req' = [req EXCEPT ![r].pc = pc]

NewReq(kind, shop, payload) ==
  [IdleReq EXCEPT !.kind = kind, !.shop = shop, !.payload = payload, !.pre = db]

\* lines 5-24 of every webhook route: the outcome of the signature checks,
\* "ok" when the handler goes on to parse the body
\* a handler that accepts whatever signature header is present
SignatureCheckUnverified(payload, signature) ==
  IF signature = NoHeader \/ signature.len = 0 THEN "missing" ELSE "ok"

SignatureCheck(payload, signature) ==
  IF signature = NoHeader \/ signature.len = 0 THEN "missing"
  ELSE LET isValid == verifyWebhookSignature(payload, signature)
       IN  IF isValid = "RangeError" THEN "throw"
           ELSE IF isValid = "false" THEN "invalid" ELSE "ok"

\* what the request carried in x-shopify-hmac-sha256, kept for the record of
\* the request once the handler has dropped the header and the body
Header(payload, signature) ==
  IF signature = NoHeader
  THEN [present |-> FALSE, len |-> 0, authentic |-> FALSE]
  ELSE [present |-> TRUE, len |-> signature.len,
        authentic |-> signature = hmacBase64(payload, SHOPIFY_API_SECRET)]

\* the request after the synchronous prologue of a webhook route
WebhookReq(kind, shop, payload, signature, next) ==
  LET q == [NewReq(kind, shop, payload) EXCEPT !.header = Header(payload, signature)]
      c == SignatureCheck(payload, signature)
      rejected == [q EXCEPT !.pc = "done", !.payload = None, !.shop = NoDomain]
  IN  CASE c = "missing" ->
             [rejected EXCEPT !.code = 401, !.resp = "Missing webhook signature"]
        [] c = "invalid" ->
             [rejected EXCEPT !.code = 401, !.resp = "Invalid webhook signature"]
        [] c = "throw" ->
             [rejected EXCEPT !.code = 500, !.resp = "Failed to process webhook"]
        [] OTHER ->
             IF shop = NoDomain /\ kind # "subscription_update"
             THEN [q EXCEPT !.pc = "done", !.code = 400,
                            !.resp = "Missing shop domain in webhook"]
             ELSE [q EXCEPT !.pc = next]

RequiredEnvNames == {"SHOPIFY_API_KEY", "SHOPIFY_API_SECRET", "SCOPES", "SHOPIFY_APP_URL"}

\* the variables the code reads from process.env
EnvNames == RequiredEnvNames \cup {"CRON_SECRET"}

\* 90 * 24 * 60 * 60 * 1000 milliseconds, in days
NinetyDays == 90

\* the process of a complete configuration, with lib/shopify.ts evaluated
Configured ==
  /\ env = [k \in EnvNames |-> TRUE]
  /\ loaded = "loaded"
  /\ now = NinetyDays

\* no status has changed yet
NoHistory == activations = 0

STORAGE_KEY == "privacy-popup-dismissed"

\* no storefront page has been opened in the browser yet
NoPage ==
  [instance |-> FALSE, container |-> FALSE, dismissible |-> FALSE, popup |-> FALSE,
   isVisible |-> FALSE, display |-> "none", ariaHidden |-> "true", timers |-> 0]

NoStorefront ==
  /\ widget = NoPage
  /\ localStorage = {}
  /\ last = "none"

EmptyDatabase ==
  /\ shops = [d \in ShopDomains |-> NoShop]
  /\ subscriptions = [s \in SubIds |-> NoSub]
  /\ settings = [k \in ShopDomains \X SettingKeys |-> NoSetting]
  /\ auditLog = <<>>
  /\ sessions = {}
  /\ issued = 0

Init ==
  /\ EmptyDatabase
  /\ req = [r \in {1} |-> IdleReq]
  /\ Configured
  /\ NoStorefront
  /\ NoHistory

\* ------------------------------------------------------ GET auth/callback
DefaultPopupSettings ==
  [message |-> "We use cookies", bgColor |-> DefaultBgColor,
   textColor |-> DefaultTextColor, linkColor |-> DefaultLinkColor]

createOrUpdateShop(domain, name) ==
  [shops EXCEPT ![domain] = [id |-> domain, name |-> name]]

updateShopSettings(table, shopId, key, value) ==
  [table EXCEPT ![<<shopId, key>>] = value]

getShopSettings(shopId, key) == settings[<<shopId, key>>]

OfflineSession(shop) == [id |-> <<"offline", shop>>, shop |-> shop]

loadSession(shop) ==
  IF OfflineSession(shop) \in sessions THEN OfflineSession(shop) ELSE None

\* shopifyHelpers.getShopInfo: the name the platform holds for the shop
getShopInfo(shop) == "Shop One"

AuthCallback(r) ==
  /\ Free(r)
  /\ Len(auditLog) < MaxAudit
  /\ \E shop \in ShopDomains :
       /\ sessions' = sessions \cup {OfflineSession(shop)}
       /\ shops' = createOrUpdateShop(shop, getShopInfo(shop))
       /\ settings' = IF getShopSettings(shop, "popup_settings") = NoSetting
                      THEN updateShopSettings(settings, shop, "popup_settings",
                                              DefaultPopupSettings)
                      ELSE settings
       /\ auditLog' = createAuditLog(auditLog, shop, "app_installed", NoDomain, None)
       /\ req' = [req EXCEPT ![r] =
                    [NewReq("install", shop, None)
                       EXCEPT !.pc = "done", !.code = 307, !.resp = "redirect"]]
  /\ UNCHANGED <<subscriptions, issued>>

\* ------------------------------------------------------ GET cron/cleanup
\* the job as the other routes see it, without dates:
\* auditLog.deleteMany where createdAt < ninetyDaysAgo: the log is kept in
\* creation order, so the entries deleted are a prefix of it, whose length
\* depends on the time that has passed
CronCleanup(r) ==
  /\ Free(r)
  /\ \E authorized \in BOOLEAN, k \in 0..Len(auditLog) :
       IF authorized
       THEN /\ k > 0
            /\ auditLog' = SubSeq(auditLog, k + 1, Len(auditLog))
            /\ req' = [req EXCEPT ![r] =
                         [NewReq("cleanup", NoDomain, [oldAuditLogs |-> k])
                            EXCEPT !.pc = "done", !.code = 200, !.resp = "Cleanup completed"]]
       ELSE /\ k = 0
            /\ UNCHANGED auditLog
            /\ req' = [req EXCEPT ![r] =
                         [NewReq("cleanup", NoDomain, None)
                            EXCEPT !.pc = "done", !.code = 401, !.resp = "Unauthorized"]]
  /\ UNCHANGED <<shops, subscriptions, settings, sessions, issued>>

\* the request after the opening checks of an admin route: shop parameter,
\* offline session, shop record
AdminReq(kind, shop, payload, next) ==
  LET q == NewReq(kind, shop, payload)
  IN  IF shop = NoDomain
      THEN [q EXCEPT !.pc = "done", !.code = 400, !.resp = "Missing shop parameter"]
      ELSE IF loadSession(shop) = None
      THEN [q EXCEPT !.pc = "done", !.code = 401, !.resp = "No active session found"]
      ELSE IF findShopByDomain(shop) = NoShop
      THEN [q EXCEPT !.pc = "done", !.code = 404, !.resp = "Shop not found"]
      ELSE [q EXCEPT !.pc = next, !.found = findShopByDomain(shop)]

\* --------------------------------------------------- POST billing/subscribe
PlanIds == {"basic"}
NotAString == "(not a string)"

PlanName(planId) ==
  IF planId = "premium" THEN "Privacy Popup Premium" ELSE "Privacy Popup Basic"

ProviderCreateResults == {"ok", "userErrors", "noSubscription", "throw"}
ProviderCancelResults == {"ok", "userErrors", "throw"}

SubscribeReceive(r) ==
  /\ Free(r)
  /\ Len(auditLog) < MaxAudit
  /\ \E shop \in ShopDomains \cup {NoDomain}, planId \in PlanIds \cup {NotAString} :
       LET q == AdminReq("subscribe", shop, [planId |-> planId], "subscribe_check")
       IN  req' = [req EXCEPT ![r] =
                     \* subscribeSchema.parse runs after the session check and
                     \* before the shop lookup
                     IF q.code \notin {400, 401} /\ planId = NotAString
                     THEN [q EXCEPT !.pc = "done", !.code = 400, !.found = None,
                                    !.resp = "Invalid request data"]
                     ELSE q]
  /\ UNCHANGED <<shops, subscriptions, settings, auditLog, sessions, issued>>

SubscribeCheckActive(r) ==
  /\ req[r].pc = "subscribe_check"
  /\ IF getActiveSubscription(req[r].found.id) # None
     THEN Respond(r, 400, "Shop already has an active subscription")
     ELSE Goto(r, "subscribe_provider")
  /\ UNCHANGED <<shops, subscriptions, settings, auditLog, sessions, issued>>

\* shopifyHelpers.createAppSubscription: one GraphQL round trip
SubscribeProvider(r) ==
  /\ req[r].pc = "subscribe_provider"
  /\ \E result \in ProviderCreateResults :
       LET q == [req[r] EXCEPT !.calls = @ + 1, !.provider = result]
       IN  CASE result = "throw" ->
                  /\ req' = [req EXCEPT ![r] = [q EXCEPT !.pc = "done", !.code = 500,
                                                  !.resp = "Failed to create subscription"]]
                  /\ UNCHANGED issued
            [] result = "userErrors" ->
                  /\ req' = [req EXCEPT ![r] = [q EXCEPT !.pc = "done", !.code = 400,
                                                  !.resp = "Subscription creation failed"]]
                  /\ UNCHANGED issued
            [] result = "noSubscription" ->
                  /\ req' = [req EXCEPT ![r] = [q EXCEPT !.pc = "done", !.code = 500,
                                                  !.resp = "Failed to create subscription"]]
                  /\ UNCHANGED issued
            [] OTHER ->
                  /\ issued < MaxSubs
                  /\ issued' = issued + 1
                  /\ req' = [req EXCEPT ![r] = [q EXCEPT !.pc = "subscribe_store",
                                                  !.newStatus = "PENDING",
                                                  !.payload = [planId |-> q.payload.planId,
                                                               id |-> issued + 1]]]
  /\ UNCHANGED <<shops, subscriptions, settings, auditLog, sessions>>

createSubscription(table, id, shopId, name, status) ==
  [table EXCEPT ![id] = [shopId |-> shopId, status |-> status, name |-> name,
                         currentPeriodEnd |-> NoDate]]

SubscribeStore(r) ==
  /\ req[r].pc = "subscribe_store"
  /\ LET q == req[r]
     IN  IF shops[q.found.id] = NoShop
         THEN /\ Respond(r, 500, "Failed to create subscription")
              /\ UNCHANGED subscriptions
         ELSE /\ subscriptions' = createSubscription(subscriptions, q.payload.id, q.found.id,
                                                     PlanName(q.payload.planId), "PENDING")
              /\ Goto(r, "subscribe_audit")
  /\ UNCHANGED <<shops, settings, auditLog, sessions, issued>>

SubscribeAudit(r) ==
  /\ req[r].pc = "subscribe_audit"
  /\ LET q == req[r]
     IN  IF shops[q.found.id] = NoShop
         THEN /\ Respond(r, 500, "Failed to create subscription")
              /\ UNCHANGED auditLog
         ELSE /\ auditLog' = createAuditLog(auditLog, q.found.id, "subscription_created",
                                            q.payload.id, [planId |-> q.payload.planId])
              /\ Respond(r, 200, "success")
  /\ UNCHANGED <<shops, subscriptions, settings, sessions, issued>>

\* ------------------------------------------------------ POST billing/cancel
\* an update that takes a repeated status for a change back to PENDING
updateSubscriptionStatusToggling(table, id, status) ==
  [table EXCEPT ![id].status = IF @ = status THEN "PENDING" ELSE status]

updateSubscriptionStatus(table, id, status) == [table EXCEPT ![id].status = status]

CancelReceive(r) ==
  /\ Free(r)
  /\ Len(auditLog) < MaxAudit
  /\ \E shop \in ShopDomains \cup {NoDomain} :
       req' = [req EXCEPT ![r] = AdminReq("cancel", shop, None, "cancel_check")]
  /\ UNCHANGED <<shops, subscriptions, settings, auditLog, sessions, issued>>

CancelCheckActive(r) ==
  /\ req[r].pc = "cancel_check"
  /\ LET activeSubscription == getActiveSubscription(req[r].found.id)
     IN  IF activeSubscription = None
         THEN Respond(r, 404, "No active subscription found")
         ELSE req' = [req EXCEPT ![r].pc = "cancel_provider",
                                 ![r].payload = activeSubscription]
  /\ UNCHANGED <<shops, subscriptions, settings, auditLog, sessions, issued>>

\* a cancel handler that does not look at the provider's userErrors
CancelProviderIgnoringErrors(r) ==
  /\ req[r].pc = "cancel_provider"
  /\ \E result \in ProviderCancelResults :
       LET q == [req[r] EXCEPT !.calls = @ + 1, !.provider = result]
       IN  req' = [req EXCEPT ![r] =
                     CASE result = "throw" ->
                            [q EXCEPT !.pc = "done", !.code = 500,
                                      !.resp = "Failed to cancel subscription"]
                       [] OTHER -> [q EXCEPT !.pc = "cancel_status"]]
  /\ UNCHANGED <<shops, subscriptions, settings, auditLog, sessions, issued>>

\* shopifyHelpers.cancelAppSubscription: one GraphQL round trip
CancelProvider(r) ==
  /\ req[r].pc = "cancel_provider"
  /\ \E result \in ProviderCancelResults :
       LET q == [req[r] EXCEPT !.calls = @ + 1, !.provider = result]
       IN  req' = [req EXCEPT ![r] =
                     CASE result = "throw" ->
                            [q EXCEPT !.pc = "done", !.code = 500,
                                      !.resp = "Failed to cancel subscription"]
                       [] result = "userErrors" ->
                            [q EXCEPT !.pc = "done", !.code = 400,
                                      !.resp = "Subscription cancellation failed"]
                       [] OTHER -> [q EXCEPT !.pc = "cancel_status"]]
  /\ UNCHANGED <<shops, subscriptions, settings, auditLog, sessions, issued>>

CancelStatus(r) ==
  /\ req[r].pc = "cancel_status"
  /\ LET id == req[r].payload.id
     IN  IF subscriptions[id] = NoSub
         THEN /\ Respond(r, 500, "Failed to cancel subscription")
              /\ UNCHANGED subscriptions
         ELSE /\ subscriptions' = updateSubscriptionStatus(subscriptions, id, "CANCELLED")
              /\ req' = [req EXCEPT ![r].pc = "cancel_audit", ![r].newStatus = "CANCELLED"]
  /\ UNCHANGED <<shops, settings, auditLog, sessions, issued>>

\* a cancel handler that logs under the provider-driven tag
CancelAuditProviderTag(r) ==
  /\ req[r].pc = "cancel_audit"
  /\ auditLog' = createAuditLog(auditLog, req[r].found.id, "subscription_cancelled_by_shopify",
                                req[r].payload.id, [reason |-> "user_initiated"])
  /\ Respond(r, 200, "success")
  /\ UNCHANGED <<shops, subscriptions, settings, sessions, issued>>

CancelAudit(r) ==
  /\ req[r].pc = "cancel_audit"
  /\ LET q == req[r]
     IN  IF shops[q.found.id] = NoShop
         THEN /\ Respond(r, 500, "Failed to cancel subscription")
              /\ UNCHANGED auditLog
         ELSE /\ auditLog' = createAuditLog(auditLog, q.found.id, "subscription_cancelled",
                                            q.payload.id, [reason |-> "user_initiated"])
              /\ Respond(r, 200, "success")
  /\ UNCHANGED <<shops, subscriptions, settings, sessions, issued>>

\* ------------------------------------- webhook app_subscriptions/update
SubscriptionUpdateReceive(r) ==
  /\ Free(r)
  /\ Len(auditLog) < MaxAudit
  /\ \E id \in SubIds, status \in ProviderStatuses, billing \in BillingDates \cup {NoDate} :
       LET payload == [id |-> id, status |-> status, billing_on |-> billing]
       IN  \E signature \in SignatureHeaders(payload) :
             LET q == WebhookReq("subscription_update", NoDomain, payload, signature,
                                 "sub_find")
             IN  req' = [req EXCEPT ![r] =
                           IF q.pc = "sub_find"
                           THEN [q EXCEPT !.newStatus = statusMapping(status)] ELSE q]
  /\ UNCHANGED <<shops, subscriptions, settings, auditLog, sessions, issued>>

\* a reconciler that treats an unknown subscription as an error
SubscriptionUpdateFindStrict(r) ==
  /\ req[r].pc = "sub_find"
  /\ LET subscription == subscriptions[req[r].payload.id]
     IN  IF subscription = NoSub
         THEN Respond(r, 404, "Subscription not found")
         ELSE req' = [req EXCEPT ![r].found = subscription, ![r].pc = "sub_status"]
  /\ UNCHANGED <<shops, subscriptions, settings, auditLog, sessions, issued>>

SubscriptionUpdateFind(r) ==
  /\ req[r].pc = "sub_find"
  /\ LET subscription == subscriptions[req[r].payload.id]
     IN  IF subscription = NoSub
         THEN Respond(r, 200, "success")
         ELSE req' = [req EXCEPT ![r].found = subscription, ![r].pc = "sub_status"]
  /\ UNCHANGED <<shops, subscriptions, settings, auditLog, sessions, issued>>

SubscriptionUpdateStatus(r) ==
  /\ req[r].pc = "sub_status"
  /\ LET id == req[r].payload.id
     IN  IF req[r].newStatus \notin SubscriptionStatus \/ subscriptions[id] = NoSub
         THEN /\ Respond(r, 500, "Failed to process subscription update webhook")
              /\ UNCHANGED subscriptions
         ELSE /\ subscriptions' = updateSubscriptionStatus(subscriptions, id, req[r].newStatus)
              /\ Goto(r, IF req[r].payload.billing_on # NoDate THEN "sub_period" ELSE "sub_audit")
  /\ UNCHANGED <<shops, settings, auditLog, sessions, issued>>

\* new Date(billing_on): a date-only ISO string names the start of that day
\* in UTC
newDate(iso) == IF iso \in BillingDates THEN iso \o "T00:00:00.000Z" ELSE "Invalid Date"

\* a reconciler that moves the period end only together with the status
SubscriptionUpdatePeriodEndOnChange(r) ==
  /\ req[r].pc = "sub_period"
  /\ LET id == req[r].payload.id
     IN  /\ subscriptions' =
              IF req[r].found.status = req[r].newStatus THEN subscriptions
              ELSE [subscriptions EXCEPT
                      ![id].currentPeriodEnd = newDate(req[r].payload.billing_on)]
         /\ Goto(r, "sub_audit")
  /\ UNCHANGED <<shops, settings, auditLog, sessions, issued>>

SubscriptionUpdatePeriodEnd(r) ==
  /\ req[r].pc = "sub_period"
  /\ LET id == req[r].payload.id
     IN  IF subscriptions[id] = NoSub
         THEN /\ Respond(r, 500, "Failed to process subscription update webhook")
              /\ UNCHANGED subscriptions
         ELSE /\ subscriptions' =
                   [subscriptions EXCEPT
                      ![id].currentPeriodEnd = newDate(req[r].payload.billing_on)]
              /\ Goto(r, "sub_audit")
  /\ UNCHANGED <<shops, settings, auditLog, sessions, issued>>

\* a reconciler that logs an activation for every event reaching ACTIVE
SubscriptionUpdateAuditAnyActive(r) ==
  /\ req[r].pc = "sub_audit"
  /\ LET q == req[r]
     IN  /\ auditLog' = createAuditLog(auditLog, q.found.shopId, "subscription_updated",
                          q.payload.id,
                          [oldStatus |-> q.found.status, newStatus |-> q.newStatus,
                           billingOn |-> q.payload.billing_on])
         /\ IF q.newStatus = "ACTIVE"
            THEN Goto(r, "sub_activated")
            ELSE IF q.newStatus = "CANCELLED"
                 THEN Goto(r, "sub_cancelled")
                 ELSE Respond(r, 200, "Subscription updated successfully")
  /\ UNCHANGED <<shops, subscriptions, settings, sessions, issued>>

SubscriptionUpdateAudit(r) ==
  /\ req[r].pc = "sub_audit"
  /\ LET q == req[r]
     IN  IF shops[q.found.shopId] = NoShop
         THEN /\ Respond(r, 500, "Failed to process subscription update webhook")
              /\ UNCHANGED auditLog
         ELSE /\ auditLog' = createAuditLog(auditLog, q.found.shopId, "subscription_updated",
                               q.payload.id,
                               [oldStatus |-> q.found.status, newStatus |-> q.newStatus,
                                billingOn |-> q.payload.billing_on])
              /\ IF q.newStatus = "ACTIVE" /\ q.found.status = "PENDING"
                 THEN Goto(r, "sub_activated")
                 ELSE IF q.newStatus = "CANCELLED"
                      THEN Goto(r, "sub_cancelled")
                      ELSE Respond(r, 200, "Subscription updated successfully")
  /\ UNCHANGED <<shops, subscriptions, settings, sessions, issued>>

\* a reconciler that records the specialised entry in place of the generic one
SubscriptionUpdateAuditSpecialOnly(r, pc, action) ==
  /\ req[r].pc = pc
  /\ auditLog' = createAuditLog(SubSeq(auditLog, 1, Len(auditLog) - 1),
                                req[r].found.shopId, action, req[r].payload.id, None)
  /\ Respond(r, 200, "Subscription updated successfully")
  /\ UNCHANGED <<shops, subscriptions, settings, sessions, issued>>

SubscriptionUpdateAuditSpecial(r, pc, action) ==
  /\ req[r].pc = pc
  /\ LET q == req[r]
     IN  IF shops[q.found.shopId] = NoShop
         THEN /\ Respond(r, 500, "Failed to process subscription update webhook")
              /\ UNCHANGED auditLog
         ELSE /\ auditLog' = createAuditLog(auditLog, q.found.shopId, action, q.payload.id, None)
              /\ Respond(r, 200, "Subscription updated successfully")
  /\ UNCHANGED <<shops, subscriptions, settings, sessions, issued>>

SubscriptionUpdateAuditActivated(r) ==
  SubscriptionUpdateAuditSpecial(r, "sub_activated", "subscription_activated")

SubscriptionUpdateAuditCancelled(r) ==
  SubscriptionUpdateAuditSpecial(r, "sub_cancelled", "subscription_cancelled_by_shopify")

\* the provider delivers the event it has just delivered once more, with the
\* same body and the same signature; replay keeps the subscription as the
\* first delivery left it
SubscriptionUpdateRedeliver(r) ==
  /\ req[r].pc = "done" /\ req[r].kind = "subscription_update"
  /\ req[r].payload # None /\ req[r].replay = None
  /\ Len(auditLog) <= MaxAudit + 1
  /\ LET payload == req[r].payload
         q == WebhookReq("subscription_update", NoDomain, payload,
                         hmacBase64(payload, SHOPIFY_API_SECRET), "sub_find")
     IN  req' = [req EXCEPT ![r] =
                   [q EXCEPT !.newStatus = statusMapping(payload.status),
                             !.replay = [after |-> subscriptions[payload.id]]]]
  /\ UNCHANGED <<shops, subscriptions, settings, auditLog, sessions, issued>>

\* ------------------------------------ GET cron/cleanup, with its dates
\* the job over sessions that carry their expiry and audit entries that
\* carry their creation day
CRON_SECRET == "cron_secret"
NoAuthorization == "(no authorization header)"

\* `Bearer ${process.env.CRON_SECRET}`: a template literal renders an unset
\* variable as the text undefined
expectedAuthorization ==
  "Bearer " \o (IF env["CRON_SECRET"] THEN CRON_SECRET ELSE "undefined")

AuthorizationHeaders ==
  {NoAuthorization, "Bearer " \o CRON_SECRET, "Bearer other_secret", "Bearer undefined",
   CRON_SECRET}

\* a session of an online token, which expires; offline sessions store no
\* expiry
OnlineSession(shop, expires) ==
  [id |-> <<"online", shop>>, shop |-> shop, expires |-> expires]

\* where: { expires: { lt: new Date() } }, which no null expiry matches
Expired(s, date) == "expires" \in DOMAIN s /\ s.expires < date

cleanupExpiredSessions(store, date) == {s \in store : ~Expired(s, date)}

\* where: { createdAt: { lt: ninetyDaysAgo } }
deleteOldLogs(log, ninetyDaysAgo) ==
  SelectSeq(log, LAMBDA e : ~(e.createdAt < ninetyDaysAgo))

\* where: { shop: null }: the settings whose shop row does not exist
deleteOrphanedSettings(table) ==
  [k \in DOMAIN table |-> IF shops[k[1]] = NoShop THEN NoSetting ELSE table[k]]

CleanupJobReceive(r) ==
  /\ Free(r)
  /\ \E authHeader \in AuthorizationHeaders :
       LET q == NewReq("cleanup", NoDomain, [authorization |-> authHeader])
       IN  req' = [req EXCEPT ![r] =
                     IF authHeader # expectedAuthorization
                     THEN [q EXCEPT !.pc = "done", !.code = 401, !.resp = "Unauthorized"]
                     ELSE [q EXCEPT !.pc = "cron_sessions"]]
  /\ UNCHANGED <<shops, subscriptions, settings, auditLog, sessions, issued>>

CleanupJobSessions(r) ==
  /\ req[r].pc = "cron_sessions"
  /\ sessions' = cleanupExpiredSessions(sessions, now)
  /\ req' = [req EXCEPT ![r].pc = "cron_logs", ![r].found = [sessionsAt |-> now]]
  /\ UNCHANGED <<shops, subscriptions, settings, auditLog, issued>>

CleanupJobAuditLogs(r) ==
  /\ req[r].pc = "cron_logs"
  /\ LET ninetyDaysAgo == now - NinetyDays
     IN  /\ auditLog' = deleteOldLogs(auditLog, ninetyDaysAgo)
         /\ req' = [req EXCEPT ![r].pc = "cron_settings",
                               ![r].found = [sessionsAt |-> req[r].found.sessionsAt,
                                             ninetyDaysAgo |-> ninetyDaysAgo]]
  /\ UNCHANGED <<shops, subscriptions, settings, sessions, issued>>

CleanupJobSettings(r) ==
  /\ req[r].pc = "cron_settings"
  /\ settings' = deleteOrphanedSettings(settings)
  /\ Respond(r, 200, "Cleanup completed successfully")
  /\ UNCHANGED <<shops, subscriptions, auditLog, sessions, issued>>

CleanupJob(r) ==
  \/ CleanupJobReceive(r) \/ CleanupJobSessions(r)
  \/ CleanupJobAuditLogs(r) \/ CleanupJobSettings(r)

\* a day passes
Tick ==
  /\ now < NinetyDays + MaxDay
  /\ now' = now + 1
  /\ UNCHANGED <<serverVars, bootVars, widgetVars, activations>>

\* ------------------------------------------- webhook app/uninstalled
UninstalledReceive(r) ==
  /\ Free(r)
  /\ Len(auditLog) < MaxAudit
  /\ \E myshopify_domain \in ShopDomains \cup {NoDomain}, domain \in ShopDomains \cup {NoDomain} :
       LET payload == [myshopify_domain |-> myshopify_domain, domain |-> domain]
           shopDomain == IF myshopify_domain # NoDomain THEN myshopify_domain ELSE domain
       IN  \E signature \in SignatureHeaders(payload) :
             req' = [req EXCEPT ![r] =
                       WebhookReq("uninstalled", shopDomain, payload, signature, "un_find")]
  /\ UNCHANGED <<shops, subscriptions, settings, auditLog, sessions, issued>>

UninstalledFind(r) ==
  /\ req[r].pc = "un_find"
  /\ LET shop == findShopByDomain(req[r].shop)
     IN  IF shop = NoShop
         THEN Respond(r, 200, "success")
         ELSE req' = [req EXCEPT ![r].found = shop, ![r].pc = "un_audit"]
  /\ UNCHANGED <<shops, subscriptions, settings, auditLog, sessions, issued>>

\* an uninstall handler that purges without logging first
UninstalledAuditSkipped(r) ==
  /\ req[r].pc = "un_audit"
  /\ Goto(r, "un_sessions")
  /\ UNCHANGED <<shops, subscriptions, settings, auditLog, sessions, issued>>

UninstalledAudit(r) ==
  /\ req[r].pc = "un_audit"
  /\ IF shops[req[r].found.id] = NoShop
     THEN /\ Respond(r, 500, "Failed to process app uninstalled webhook")
          /\ UNCHANGED auditLog
     ELSE /\ auditLog' = createAuditLog(auditLog, req[r].found.id, "app_uninstalled",
                                        NoDomain, None)
          /\ Goto(r, "un_sessions")
  /\ UNCHANGED <<shops, subscriptions, settings, sessions, issued>>

\* a purge that leaves the session store alone
deleteSessionsByShopSkipped(shop) == sessions

deleteSessionsByShop(shop) == {s \in sessions : s.shop # shop}

\* a step of the purge either completes or throws into the catch of line 68
PurgeStep(r, pc, next, effect) ==
  /\ req[r].pc = pc
  /\ \E ok \in BOOLEAN :
       IF ok THEN effect /\ Goto(r, next)
       ELSE /\ Goto(r, "un_failed")
            /\ UNCHANGED <<shops, subscriptions, settings, auditLog, sessions>>
  /\ UNCHANGED issued

UninstalledSessions(r) ==
  PurgeStep(r, "un_sessions", "un_purge_logs",
            /\ sessions' = deleteSessionsByShop(req[r].shop)
            /\ UNCHANGED <<shops, subscriptions, settings, auditLog>>)

\* db.cleanupShopData: four deletes, no transaction
CleanupAuditLogs(r) ==
  PurgeStep(r, "un_purge_logs", "un_purge_settings",
            /\ auditLog' = SelectSeq(auditLog, LAMBDA e : e.shopId # req[r].found.id)
            /\ UNCHANGED <<shops, subscriptions, settings, sessions>>)

CleanupSettings(r) ==
  PurgeStep(r, "un_purge_settings", "un_purge_subs",
            /\ settings' = [k \in DOMAIN settings |->
                              IF k[1] = req[r].found.id THEN NoSetting ELSE settings[k]]
            /\ UNCHANGED <<shops, subscriptions, auditLog, sessions>>)

CleanupSubscriptions(r) ==
  PurgeStep(r, "un_purge_subs", "un_purge_shop",
            /\ subscriptions' = [s \in SubIds |->
                                   IF subscriptions[s].shopId = req[r].found.id
                                   THEN NoSub ELSE subscriptions[s]]
            /\ UNCHANGED <<shops, settings, auditLog, sessions>>)

CleanupShop(r) ==
  PurgeStep(r, "un_purge_shop", "un_respond",
            /\ shops[req[r].found.id] # NoShop
            /\ shops' = [shops EXCEPT ![req[r].found.id] = NoShop]
            /\ UNCHANGED <<subscriptions, settings, auditLog, sessions>>)

\* an uninstall handler that lets a failed 'cleanup_failed' write escape
UninstalledCleanupFailedEscapes(r) ==
  /\ req[r].pc = "un_failed"
  /\ \E ok \in BOOLEAN :
       IF ok /\ shops[req[r].found.id] # NoShop
       THEN /\ auditLog' = createAuditLog(auditLog, req[r].found.id, "cleanup_failed",
                                          NoDomain, None)
            /\ req' = [req EXCEPT ![r].pc = "done", ![r].code = 200,
                                  ![r].provider = "cleanup_failed",
                                  ![r].resp = "App uninstalled and data cleaned up"]
       ELSE /\ UNCHANGED auditLog
            /\ req' = [req EXCEPT ![r].pc = "done", ![r].code = 500,
                                  ![r].provider = "cleanup_failed",
                                  ![r].resp = "Failed to process app uninstalled webhook"]
  /\ UNCHANGED <<shops, subscriptions, settings, sessions, issued>>

UninstalledCleanupFailed(r) ==
  /\ req[r].pc = "un_failed"
  /\ \E ok \in BOOLEAN :
       IF ok /\ shops[req[r].found.id] # NoShop
       THEN auditLog' = createAuditLog(auditLog, req[r].found.id, "cleanup_failed",
                                       NoDomain, None)
       ELSE UNCHANGED auditLog
  /\ req' = [req EXCEPT ![r].pc = "done", ![r].code = 200, ![r].provider = "cleanup_failed",
                        ![r].resp = "App uninstalled and data cleaned up"]
  /\ UNCHANGED <<shops, subscriptions, settings, sessions, issued>>

UninstalledRespond(r) ==
  /\ req[r].pc = "un_respond"
  /\ Respond(r, 200, "App uninstalled and data cleaned up")
  /\ UNCHANGED <<shops, subscriptions, settings, auditLog, sessions, issued>>

\* ------------------------------------------------- webhook shop/update
ShopUpdateReceive(r) ==
  /\ Free(r)
  /\ Len(auditLog) < MaxAudit
  /\ \E myshopify_domain \in ShopDomains \cup {NoDomain}, name \in ShopNames :
       LET payload == [myshopify_domain |-> myshopify_domain, name |-> name]
       IN  \E signature \in SignatureHeaders(payload) :
             req' = [req EXCEPT ![r] =
                       WebhookReq("shop_update", myshopify_domain, payload, signature, "shop_find")]
  /\ UNCHANGED <<shops, subscriptions, settings, auditLog, sessions, issued>>

\* a shop/update handler that upserts whatever shop the event names
ShopUpdateFindAny(r) ==
  /\ req[r].pc = "shop_find"
  /\ req' = [req EXCEPT ![r].found = findShopByDomain(req[r].shop), ![r].pc = "shop_upsert"]
  /\ UNCHANGED <<shops, subscriptions, settings, auditLog, sessions, issued>>

ShopUpdateFind(r) ==
  /\ req[r].pc = "shop_find"
  /\ LET existingShop == findShopByDomain(req[r].shop)
     IN  IF existingShop = NoShop
         THEN Respond(r, 200, "success")
         ELSE req' = [req EXCEPT ![r].found = existingShop, ![r].pc = "shop_upsert"]
  /\ UNCHANGED <<shops, subscriptions, settings, auditLog, sessions, issued>>

ShopUpdateUpsert(r) ==
  /\ req[r].pc = "shop_upsert"
  /\ shops' = createOrUpdateShop(req[r].shop, req[r].payload.name)
  /\ Goto(r, "shop_audit")
  /\ UNCHANGED <<subscriptions, settings, auditLog, sessions, issued>>

ShopUpdateAudit(r) ==
  /\ req[r].pc = "shop_audit"
  /\ auditLog' = createAuditLog(auditLog, shops[req[r].shop].id, "shop_updated",
                                shops[req[r].shop].id, None)
  /\ Respond(r, 200, "Shop updated successfully")
  /\ UNCHANGED <<shops, subscriptions, settings, sessions, issued>>

\* ---------------------------------------------- webhook themes/publish
ThemeIds == {101}
ThemeRoles == {"main", "unpublished"}

ThemesPublishReceive(r) ==
  /\ Free(r)
  /\ Len(auditLog) < MaxAudit
  /\ \E shopDomain \in ShopDomains \cup {NoDomain}, id \in ThemeIds, role \in ThemeRoles :
       LET payload == [id |-> id, role |-> role]
       IN  \E signature \in SignatureHeaders(payload) :
             req' = [req EXCEPT ![r] =
                       WebhookReq("themes_publish", shopDomain, payload, signature, "theme_find")]
  /\ UNCHANGED <<shops, subscriptions, settings, auditLog, sessions, issued>>

\* a themes/publish handler that records every published theme
ThemesPublishFindAnyRole(r) ==
  /\ req[r].pc = "theme_find"
  /\ LET shop == findShopByDomain(req[r].shop)
     IN  IF shop = NoShop
         THEN Respond(r, 200, "success")
         ELSE req' = [req EXCEPT ![r].found = shop, ![r].pc = "theme_audit"]
  /\ UNCHANGED <<shops, subscriptions, settings, auditLog, sessions, issued>>

ThemesPublishFind(r) ==
  /\ req[r].pc = "theme_find"
  /\ LET shop == findShopByDomain(req[r].shop)
     IN  IF shop = NoShop
         THEN Respond(r, 200, "success")
         ELSE IF req[r].payload.role = "main"
              THEN req' = [req EXCEPT ![r].found = shop, ![r].pc = "theme_audit"]
              ELSE req' = [req EXCEPT ![r].found = shop, ![r].pc = "done", ![r].code = 200,
                                      ![r].resp = "Theme publish processed successfully"]
  /\ UNCHANGED <<shops, subscriptions, settings, auditLog, sessions, issued>>

ThemesPublishAudit(r) ==
  /\ req[r].pc = "theme_audit"
  /\ IF shops[req[r].found.id] = NoShop
     THEN /\ Respond(r, 500, "Failed to process theme publish webhook")
          /\ UNCHANGED auditLog
     ELSE /\ auditLog' = createAuditLog(auditLog, req[r].found.id, "theme_published",
                                        req[r].payload.id, None)
          /\ Goto(r, "theme_info")
  /\ UNCHANGED <<shops, subscriptions, settings, sessions, issued>>

ThemesPublishInfo(r) ==
  /\ req[r].pc = "theme_info"
  /\ IF shops[req[r].found.id] = NoShop
     THEN /\ Respond(r, 500, "Failed to process theme publish webhook")
          /\ UNCHANGED settings
     ELSE /\ settings' = updateShopSettings(settings, req[r].found.id, "theme_info",
                                            [mainThemeId |-> req[r].payload.id])
          /\ Goto(r, "theme_flag")
  /\ UNCHANGED <<shops, subscriptions, auditLog, sessions, issued>>

ThemesPublishNotification(r) ==
  /\ req[r].pc = "theme_flag"
  /\ \/ /\ shops[req[r].found.id] # NoShop
        /\ settings' = updateShopSettings(settings, req[r].found.id,
                                          "theme_change_notification",
                                          [themeId |-> req[r].payload.id,
                                           acknowledged |-> FALSE])
     \/ UNCHANGED settings
  /\ Respond(r, 200, "Theme publish processed successfully")
  /\ UNCHANGED <<shops, subscriptions, auditLog, sessions, issued>>

\* --------------------------------------------------- POST api/settings
HexColors == {DefaultBgColor, DefaultTextColor, DefaultLinkColor, "#ff0000", "#112233"}

SettingsPayloads ==
  { [message |-> m, bgColor |-> b, textColor |-> t, linkColor |-> l] :
      m \in {"Cookies"}, b \in {DefaultBgColor, "#ff0000"},
      t \in {DefaultTextColor}, l \in {DefaultLinkColor} }
  \cup { [message |-> "", bgColor |-> DefaultBgColor, textColor |-> DefaultTextColor,
          linkColor |-> DefaultLinkColor],
         [message |-> "Cookies", bgColor |-> "red", textColor |-> DefaultTextColor,
          linkColor |-> DefaultLinkColor] }

\* a schema that accepts every payload
popupSettingsSchemaLax(body) == {}

\* the fields of the payload popupSettingsSchema rejects
popupSettingsSchema(body) ==
  {f \in {"bgColor", "textColor", "linkColor"} : body[f] \notin HexColors}
  \cup (IF body.message = "" THEN {"message"} ELSE {})

SettingsReceive(r) ==
  /\ Free(r)
  /\ Len(auditLog) < MaxAudit
  /\ \E shop \in ShopDomains \cup {NoDomain}, body \in SettingsPayloads :
       LET q == AdminReq("settings", shop, body, "settings_check")
       IN  req' = [req EXCEPT ![r] =
                     IF q.pc = "settings_check" /\ popupSettingsSchema(body) # {}
                     THEN [q EXCEPT !.pc = "done", !.code = 400,
                                    !.resp = "Invalid settings data",
                                    !.provider = popupSettingsSchema(body)]
                     ELSE q]
  /\ UNCHANGED <<shops, subscriptions, settings, auditLog, sessions, issued>>

SettingsCheckActive(r) ==
  /\ req[r].pc = "settings_check"
  /\ LET activeSubscription == getActiveSubscription(req[r].found.id)
         hasActiveSubscription == activeSubscription # None
                                  /\ activeSubscription.status = "ACTIVE"
     IN  req' = [req EXCEPT ![r].pc = "settings_write",
                            ![r].newStatus = IF hasActiveSubscription THEN "full"
                                             ELSE "restricted"]
  /\ UNCHANGED <<shops, subscriptions, settings, auditLog, sessions, issued>>

\* a gate that lets the requested colours through
restrictedSettingsKeepColors(validatedSettings) == validatedSettings

restrictedSettings(validatedSettings) ==
  [validatedSettings EXCEPT !.bgColor = DefaultBgColor, !.textColor = DefaultTextColor,
                            !.linkColor = DefaultLinkColor]

SettingsWrite(r) ==
  /\ req[r].pc = "settings_write"
  /\ IF shops[req[r].found.id] = NoShop
     THEN /\ Respond(r, 500, "Failed to update settings")
          /\ UNCHANGED settings
     ELSE /\ settings' = updateShopSettings(settings, req[r].found.id, "popup_settings",
                           IF req[r].newStatus = "restricted"
                           THEN restrictedSettings(req[r].payload) ELSE req[r].payload)
          /\ Goto(r, "settings_audit")
  /\ UNCHANGED <<shops, subscriptions, auditLog, sessions, issued>>

\* a settings handler that answers without logging the update
SettingsAuditSkipped(r) ==
  /\ req[r].pc = "settings_audit"
  /\ req' = [req EXCEPT ![r].pc = "done", ![r].code = 200, ![r].resp = "success",
                        ![r].provider = IF req[r].newStatus = "restricted"
                                        THEN {"custom_colors"} ELSE {}]
  /\ UNCHANGED <<shops, subscriptions, settings, auditLog, sessions, issued>>

SettingsAudit(r) ==
  /\ req[r].pc = "settings_audit"
  /\ LET restricted == req[r].newStatus = "restricted"
     IN  IF shops[req[r].found.id] = NoShop
         THEN /\ Respond(r, 500, "Failed to update settings")
              /\ UNCHANGED auditLog
         ELSE /\ auditLog' = createAuditLog(auditLog, req[r].found.id, "settings_updated",
                                            NoDomain,
                                            IF restricted
                                            THEN [restrictedFeatures |-> {"custom_colors"}]
                                            ELSE [hasSubscription |-> TRUE])
              /\ req' = [req EXCEPT ![r].pc = "done", ![r].code = 200,
                                    ![r].resp = "success",
                                    ![r].provider = IF restricted THEN {"custom_colors"}
                                                    ELSE {}]
  /\ UNCHANGED <<shops, subscriptions, settings, sessions, issued>>

\* ----------------------------------------------- lib/shopify.ts, top level
missingEnvVars == {k \in RequiredEnvNames : ~env[k]}

\* a module that goes on without looking at its environment
ModuleLoadUnchecked ==
  /\ loaded = "pending"
  /\ loaded' = "loaded"
  /\ UNCHANGED env

\* the first import of lib/shopify.ts: throws when a variable is missing
ModuleLoad ==
  /\ loaded = "pending"
  /\ loaded' = IF missingEnvVars # {} THEN "failed" ELSE "loaded"
  /\ UNCHANGED env

\* a webhook delivery to a process whose lib/shopify.ts threw: the route
\* module cannot be imported, the handler never runs and the framework
\* answers 500
RequestWhileFailed(r) ==
  /\ Free(r)
  /\ loaded = "failed"
  /\ \E kind \in {"uninstalled", "shop_update", "themes_publish", "subscription_update"} :
       \E signature \in SignatureHeaders(None) :
         req' = [req EXCEPT ![r] =
                   [NewReq(kind, NoDomain, None)
                      EXCEPT !.header = Header(None, signature),
                             !.pc = "done", !.code = 500,
                             !.resp = "Internal Server Error"]]
  /\ UNCHANGED <<shops, subscriptions, settings, auditLog, sessions, issued>>

\* ------------------------------ extensions/privacy-popup/privacy-popup.js
isDismissed(storage) == STORAGE_KEY \in storage

\* PrivacyPopup.show
show(w) ==
  IF ~w.popup \/ w.isVisible THEN w
  ELSE [w EXCEPT !.display = "block", !.ariaHidden = "false", !.isVisible = TRUE]

\* PrivacyPopup.hide: the container is hidden by a timer 300 ms later
hide(w) ==
  IF ~w.popup \/ ~w.isVisible THEN w
  ELSE [w EXCEPT !.ariaHidden = "true", !.isVisible = FALSE, !.timers = @ + 1]

\* a widget that forgets to store the dismissal
dismissUnstored(w, storage) == [widget |-> hide(w), localStorage |-> storage]

\* PrivacyPopup.dismiss
dismiss(w, storage) ==
  [widget |-> hide(w),
   localStorage |-> IF w.dismissible THEN storage \cup {STORAGE_KEY} ELSE storage]

\* PrivacyPopup.reset
reset(w, storage) ==
  [widget |-> IF ~w.isVisible THEN show(w) ELSE w,
   localStorage |-> storage \ {STORAGE_KEY}]

\* PrivacyPopup.destroy
destroy(w) ==
  LET removed == IF w.popup THEN [hide(w) EXCEPT !.popup = FALSE] ELSE w
  IN  [removed EXCEPT !.isVisible = FALSE]

\* PrivacyPopup.init after createPopup and bindEvents
init(w, storage) ==
  IF w.dismissible /\ isDismissed(storage) THEN w
  ELSE show([w EXCEPT !.popup = TRUE, !.ariaHidden = "true"])

\* new PrivacyPopup() on a freshly loaded page
constructor(container, dismissible, storage) ==
  LET w == [NoPage EXCEPT !.instance = TRUE, !.container = container]
  IN  IF ~container THEN w
      ELSE init([w EXCEPT !.dismissible = dismissible], storage)

\* a step of the page: the widget and the storage after it, and its name
PageStep(name, w, storage) ==
  /\ w.timers <= MaxTimers
  /\ widget' = w
  /\ localStorage' = storage
  /\ last' = name
  /\ UNCHANGED <<serverVars, bootVars, now, activations>>

\* the visitor opens or reloads a storefront page; the timers of the page
\* before are gone with it
PageLoad ==
  \E container \in BOOLEAN, dismissible \in BOOLEAN :
    PageStep("load", constructor(container, container /\ dismissible, localStorage),
             localStorage)

\* the popup's buttons and its keydown listener can be reached while the
\* popup element is in a displayed container
Reachable == widget.popup /\ widget.display = "block"

ClickAccept ==
  /\ Reachable
  /\ LET d == dismiss(widget, localStorage)
     IN  PageStep("accept", d.widget, d.localStorage)

ClickDismiss ==
  /\ Reachable /\ widget.dismissible
  /\ LET d == dismiss(widget, localStorage)
     IN  PageStep("dismiss", d.widget, d.localStorage)

ClickClose ==
  /\ Reachable /\ widget.dismissible
  /\ LET d == dismiss(widget, localStorage)
     IN  PageStep("close", d.widget, d.localStorage)

\* a keydown handler that dismisses on Escape whatever the configuration
handleKeydownAlways(w, storage) == dismiss(w, storage)

\* PrivacyPopup.handleKeydown, case 'Escape'
handleKeydown(w, storage) ==
  IF w.dismissible THEN dismiss(w, storage)
  ELSE [widget |-> w, localStorage |-> storage]

KeyEscape ==
  /\ Reachable
  /\ LET d == handleKeydown(widget, localStorage)
     IN  PageStep("escape", d.widget, d.localStorage)

\* calls of the public API on window.PrivacyPopup
CallShow == widget.instance /\ PageStep("show", show(widget), localStorage)

CallHide == widget.instance /\ PageStep("hide", hide(widget), localStorage)

\* without a container this.settings is undefined and dismiss() throws
CallDismiss ==
  /\ widget.instance
  /\ LET d == IF widget.container THEN dismiss(widget, localStorage)
              ELSE [widget |-> widget, localStorage |-> localStorage]
     IN  PageStep("dismissCall", d.widget, d.localStorage)

\* window.resetPrivacyPopup
resetPrivacyPopup ==
  /\ widget.instance
  /\ LET d == reset(widget, localStorage)
     IN  PageStep("reset", d.widget, d.localStorage)

CallDestroy == widget.instance /\ PageStep("destroy", destroy(widget), localStorage)

\* the timeout set by hide() fires
HideTimer ==
  /\ widget.timers > 0
  /\ PageStep("timer", [widget EXCEPT !.display = "none", !.timers = @ - 1], localStorage)

Housekeeping(r) == Reply(r) \/ AuthCallback(r) \/ CronCleanup(r)

Subscribe(r) ==
  \/ SubscribeReceive(r)
  \/ SubscribeCheckActive(r)
  \/ SubscribeProvider(r)
  \/ SubscribeStore(r)
  \/ SubscribeAudit(r)

Cancel(r) ==
  \/ CancelReceive(r)
  \/ CancelCheckActive(r)
  \/ CancelProvider(r)
  \/ CancelStatus(r)
  \/ CancelAudit(r)

SubscriptionUpdate(r) ==
  \/ SubscriptionUpdateReceive(r)
  \/ SubscriptionUpdateFind(r)
  \/ SubscriptionUpdateStatus(r)
  \/ SubscriptionUpdatePeriodEnd(r)
  \/ SubscriptionUpdateAudit(r)
  \/ SubscriptionUpdateAuditActivated(r)
  \/ SubscriptionUpdateAuditCancelled(r)

Uninstalled(r) ==
  \/ UninstalledReceive(r)
  \/ UninstalledFind(r)
  \/ UninstalledAudit(r)
  \/ UninstalledSessions(r)
  \/ CleanupAuditLogs(r)
  \/ CleanupSettings(r)
  \/ CleanupSubscriptions(r)
  \/ CleanupShop(r)
  \/ UninstalledCleanupFailed(r)
  \/ UninstalledRespond(r)

ShopUpdate(r) ==
  \/ ShopUpdateReceive(r)
  \/ ShopUpdateFind(r)
  \/ ShopUpdateUpsert(r)
  \/ ShopUpdateAudit(r)

ThemesPublish(r) ==
  \/ ThemesPublishReceive(r)
  \/ ThemesPublishFind(r)
  \/ ThemesPublishAudit(r)
  \/ ThemesPublishInfo(r)
  \/ ThemesPublishNotification(r)

Settings(r) ==
  \/ SettingsReceive(r)
  \/ SettingsCheckActive(r)
  \/ SettingsWrite(r)
  \/ SettingsAudit(r)

\* billing and the reconciler
Next ==
  /\ \E r \in DOMAIN req :
       \/ Housekeeping(r) \/ Subscribe(r) \/ Cancel(r) \/ SubscriptionUpdate(r)
       \/ SubscriptionUpdateRedeliver(r)
  /\ UNCHANGED otherVars

Spec == Init /\ [][Next]_vars

\* the settings gate over the subscriptions the reconciler maintains
NextSettings ==
  /\ \E r \in DOMAIN req :
       Housekeeping(r) \/ Subscribe(r) \/ SubscriptionUpdate(r) \/ Settings(r)
  /\ UNCHANGED otherVars

SpecSettings == Init /\ [][NextSettings]_vars

\* the uninstall purge over installed shops with subscriptions
NextUninstall ==
  /\ \E r \in DOMAIN req : Housekeeping(r) \/ Subscribe(r) \/ Uninstalled(r)
  /\ UNCHANGED otherVars

SpecUninstall == Init /\ [][NextUninstall]_vars

\* the four webhook routes over installed and unknown shops; without the
\* billing routes no subscription exists, and app_subscriptions/update ends
\* at its lookup
NextIngress ==
  /\ \E r \in DOMAIN req :
       \/ Housekeeping(r)
       \/ Uninstalled(r) \/ ShopUpdate(r) \/ ThemesPublish(r)
       \/ SubscriptionUpdateReceive(r) \/ SubscriptionUpdateFind(r)
  /\ UNCHANGED otherVars

SpecIngress == Init /\ [][NextIngress]_vars

\* concurrent deliveries of app_subscriptions/update: two invocations of the
\* route run at once, each await being a point where the other may run. The
\* start is the state after one install and one subscribe request, with the
\* audit log pruned by the cron route; both events arrive before either
\* handler has written its audit entry.
Invocations == {1, 2}

InitConcurrent ==
  /\ shops = [d \in ShopDomains |->
                IF d = "a.myshopify.com" THEN [id |-> d, name |-> getShopInfo(d)] ELSE NoShop]
  /\ subscriptions = [s \in SubIds |->
                        IF s = 1
                        THEN [shopId |-> "a.myshopify.com", status |-> "PENDING",
                              name |-> PlanName("basic"), currentPeriodEnd |-> NoDate]
                        ELSE NoSub]
  /\ settings = [k \in ShopDomains \X SettingKeys |->
                   IF k = <<"a.myshopify.com", "popup_settings">>
                   THEN DefaultPopupSettings ELSE NoSetting]
  /\ auditLog = <<>>
  /\ sessions = {OfflineSession("a.myshopify.com")}
  /\ issued = 1
  /\ req = [r \in Invocations |-> IdleReq]
  /\ Configured
  /\ NoStorefront
  /\ NoHistory

\* the subscriptions whose stored status a step changes from PENDING to ACTIVE
Activated ==
  {s \in SubIds : /\ subscriptions[s] # NoSub /\ subscriptions'[s] # NoSub
                  /\ subscriptions[s].status = "PENDING"
                  /\ subscriptions'[s].status = "ACTIVE"}

NextConcurrent ==
  /\ \E r \in DOMAIN req : Reply(r) \/ SubscriptionUpdate(r)
  /\ activations' = activations + Cardinality(Activated)
  /\ UNCHANGED <<bootVars, widgetVars, now>>

SpecConcurrent == InitConcurrent /\ [][NextConcurrent]_vars

\* the process from its start, under every combination of set and unset
\* environment variables
InitStartup ==
  /\ EmptyDatabase
  /\ req = [r \in {1} |-> IdleReq]
  /\ env \in [EnvNames -> BOOLEAN]
  /\ loaded = "pending"
  /\ now = NinetyDays
  /\ NoStorefront
  /\ NoHistory

NextStartup ==
  \/ ModuleLoad /\ UNCHANGED <<serverVars, widgetVars, now, activations>>
  \/ /\ \E r \in DOMAIN req :
          \/ Reply(r)
          \/ RequestWhileFailed(r)
          \/ loaded = "loaded" /\ (AuthCallback(r) \/ CronCleanup(r) \/ ShopUpdate(r))
     /\ UNCHANGED otherVars

SpecStartup == InitStartup /\ [][NextStartup]_vars

\* the cleanup job over an installed shop whose sessions and audit entries
\* carry dates, with and without a configured CRON_SECRET
DatedEntry(day) ==
  [shopId |-> "a.myshopify.com", action |-> "settings_updated",
   resourceId |-> NoDomain, details |-> None, createdAt |-> day]

\* logs in creation order, of entries created from 90 days before the start
DatedLogs ==
  {<<>>}
    \cup {<<DatedEntry(d)>> : d \in 0..MaxDay}
    \cup {<<DatedEntry(p[1]), DatedEntry(p[2])>> :
            p \in {q \in (0..MaxDay) \X (0..MaxDay) : q[1] <= q[2]}}

SessionStores ==
  {offline \cup online :
     offline \in {{}, {OfflineSession("a.myshopify.com")}},
     online \in {{}} \cup {{OnlineSession("a.myshopify.com", e)} :
                              e \in NinetyDays..(NinetyDays + MaxDay)}}

InitCleanup ==
  /\ shops = [d \in ShopDomains |->
                IF d = "a.myshopify.com" THEN [id |-> d, name |-> "Shop One"] ELSE NoShop]
  /\ subscriptions = [s \in SubIds |-> NoSub]
  /\ settings = [k \in ShopDomains \X SettingKeys |->
                   IF k = <<"a.myshopify.com", "popup_settings">>
                   THEN DefaultPopupSettings ELSE NoSetting]
  /\ auditLog \in DatedLogs
  /\ sessions \in SessionStores
  /\ issued = 0
  /\ req = [r \in {1} |-> IdleReq]
  /\ env \in {e \in [EnvNames -> BOOLEAN] : \A k \in RequiredEnvNames : e[k]}
  /\ loaded = "loaded"
  /\ now = NinetyDays
  /\ NoStorefront
  /\ NoHistory

NextCleanup ==
  \/ Tick
  \/ /\ \E r \in DOMAIN req : Reply(r) \/ CleanupJob(r)
     /\ UNCHANGED otherVars

SpecCleanup == InitCleanup /\ [][NextCleanup]_vars

\* the storefront widget over page loads, visitor input, API calls and timers
InitPopup ==
  /\ EmptyDatabase
  /\ req = [r \in {1} |-> IdleReq]
  /\ Configured
  /\ NoStorefront
  /\ NoHistory

NextPopup ==
  \/ PageLoad
  \/ ClickAccept \/ ClickDismiss \/ ClickClose \/ KeyEscape
  \/ CallShow \/ CallHide \/ CallDismiss \/ resetPrivacyPopup \/ CallDestroy
  \/ HideTimer

SpecPopup == InitPopup /\ [][NextPopup]_vars

\* the storefront widget while its instance is never destroyed: page loads,
\* the popup's buttons and keys, the instance's public methods,
\* resetPrivacyPopup() and the timers
NextVisitor ==
  \/ PageLoad
  \/ ClickAccept \/ ClickDismiss \/ ClickClose \/ KeyEscape
  \/ CallShow \/ CallHide \/ CallDismiss
  \/ resetPrivacyPopup
  \/ HideTimer

SpecVisitor == InitPopup /\ [][NextVisitor]_vars

\* ================================================================ claims
WebhookKinds == {"uninstalled", "shop_update", "themes_publish", "subscription_update"}

Done(r) == req[r].pc = "done"

\* the audit entries written since request r was received
Appended(r) == SubSeq(auditLog, Len(req[r].pre.auditLog) + 1, Len(auditLog))

CountAction(entries, action) ==
  Cardinality({i \in 1..Len(entries) : entries[i].action = action})

BadSignature(q) == q.header # None /\ (~q.header.present \/ ~q.header.authentic)

\* C1: a webhook request whose signature header is missing or does not verify
\* against the raw body is answered at once and leaves Shop, Subscription,
\* Setting, AuditLog and Session as they were when it arrived.
C1_RejectedWebhookLeavesRecords ==
  \A r \in DOMAIN req :
    (req[r].kind \in WebhookKinds /\ BadSignature(req[r]))
      => (Done(r) /\ req[r].code >= 400 /\ db = req[r].pre)

C1_Witness ==
  \E r \in DOMAIN req :
    /\ Done(r) /\ req[r].kind = "uninstalled" /\ BadSignature(req[r])
    /\ req[r].header.present
    /\ \E d \in ShopDomains : /\ shops[d] # NoShop /\ OfflineSession(d) \in sessions
                              /\ settings[<<d, "popup_settings">>] # NoSetting

\* C2: every webhook request that carries a signature header whose value
\* differs from the HMAC of the raw body, whatever its length, is answered
\* with status 401.
C2_MismatchIs401 ==
  \A r \in DOMAIN req :
    (Done(r) /\ req[r].kind \in WebhookKinds /\ req[r].header # None
       /\ req[r].header.present /\ ~req[r].header.authentic)
      => req[r].code = 401

C4_Table(status) ==
  CASE status = "pending" -> "PENDING"
    [] status = "active" -> "ACTIVE"
    [] status = "cancelled" -> "CANCELLED"
    [] status = "expired" -> "EXPIRED"
    [] status = "frozen" -> "FROZEN"
    [] status = "paused" -> "PAUSED"
    [] status = "declined" -> "CANCELLED"
    [] OTHER -> "PENDING"

\* a verified subscription-update event on a subscription known locally
KnownEvent(r) ==
  /\ req[r].kind = "subscription_update"
  /\ req[r].header # None /\ req[r].header.authentic
  /\ req[r].payload # None
  /\ req[r].pre.subscriptions[req[r].payload.id] # NoSub

\* C4: after a verified subscription-update event on a known subscription the
\* stored status is the table lookup of the provider status, and PENDING for
\* every other provider status string, whatever the status was before.
C4_StatusFollowsTable ==
  \A r \in DOMAIN req :
    (Done(r) /\ KnownEvent(r))
      => subscriptions[req[r].payload.id].status = C4_Table(req[r].payload.status)
Colours(value) ==
  [bgColor |-> value.bgColor, textColor |-> value.textColor, linkColor |-> value.linkColor]

DefaultColours ==
  [bgColor |-> DefaultBgColor, textColor |-> DefaultTextColor, linkColor |-> DefaultLinkColor]

\* a settings update that was accepted and answered 200
SettingsStored(r) == Done(r) /\ req[r].kind = "settings" /\ req[r].code = 200

HadActive(r) ==
  \E s \in SubIds : /\ req[r].pre.subscriptions[s].shopId = req[r].found.id
                    /\ req[r].pre.subscriptions[s].status = "ACTIVE"

\* C5 (as stated): for every valid settings update the persisted colours equal
\* the requested colours if and only if the shop has an ACTIVE subscription.
C5_ColoursIffActive ==
  \A r \in DOMAIN req :
    SettingsStored(r)
      => ((Colours(getShopSettings(req[r].found.id, "popup_settings")) = Colours(req[r].payload))
            <=> HadActive(r))

\* C5 (amended): with an ACTIVE subscription the settings are persisted as
\* requested and nothing is reported restricted; otherwise the persisted
\* colours are the fixed defaults, every other field is persisted as
\* requested, and custom_colors is reported restricted.
C5_ColoursGate ==
  \A r \in DOMAIN req :
    SettingsStored(r)
      => LET stored == getShopSettings(req[r].found.id, "popup_settings")
         IN  IF HadActive(r)
             THEN stored = req[r].payload /\ req[r].provider = {}
             ELSE /\ Colours(stored) = DefaultColours
                  /\ stored.message = req[r].payload.message
                  /\ req[r].provider = {"custom_colors"}

C5_Witness ==
  \E r \in DOMAIN req :
    /\ SettingsStored(r) /\ ~HadActive(r)
    /\ req[r].payload.bgColor = "#ff0000"
    /\ \E s \in SubIds : /\ subscriptions[s].shopId = req[r].found.id
                         /\ subscriptions[s].status = "PENDING"

\* a verified uninstall event for a shop known locally, whose purge ran through
UninstallPurged(r) ==
  /\ Done(r) /\ req[r].kind = "uninstalled"
  /\ req[r].header # None /\ req[r].header.authentic
  /\ req[r].shop # NoDomain
  /\ req[r].pre.shops[req[r].shop] # NoShop
  /\ req[r].code = 200 /\ req[r].provider # "cleanup_failed"

\* C6: after a verified uninstall event for a known shop D whose purge
\* succeeded, no Subscription, Setting, AuditLog or Session of D remains and
\* the Shop record of D is gone.
C6_UninstallPurgesShop ==
  \A r \in DOMAIN req :
    UninstallPurged(r)
      => LET D == req[r].shop
         IN  /\ shops[D] = NoShop
             /\ \A s \in SubIds : subscriptions[s].shopId # D
             /\ \A k \in SettingKeys : settings[<<D, k>>] = NoSetting
             /\ \A i \in 1..Len(auditLog) : auditLog[i].shopId # D
             /\ \A s \in sessions : s.shop # D

C6_Witness ==
  \E r \in DOMAIN req :
    /\ UninstallPurged(r)
    /\ OfflineSession(req[r].shop) \in req[r].pre.sessions
    /\ req[r].pre.settings[<<req[r].shop, "popup_settings">>] # NoSetting
    /\ \E s \in SubIds : req[r].pre.subscriptions[s].shopId = req[r].shop

ProviderFailures == {"userErrors", "noSubscription", "throw"}

\* C7: when the provider's create or cancel call reports user errors or
\* fails, the handler answers with an error, no Subscription is created or
\* changed, no AuditLog entry is written, and the provider was called once.
C7_ProviderFailureLeavesState ==
  \A r \in DOMAIN req :
    (req[r].kind \in {"subscribe", "cancel"} /\ req[r].provider \in ProviderFailures)
      => /\ Done(r) /\ req[r].code >= 400
         /\ subscriptions = req[r].pre.subscriptions
         /\ auditLog = req[r].pre.auditLog
         /\ req[r].calls = 1

C7_Witness ==
  \E r \in DOMAIN req :
    /\ Done(r) /\ req[r].kind = "cancel" /\ req[r].provider = "userErrors"
    /\ ActiveSubs(req[r].found.id) # {}

\* C8: a user-initiated cancellation changes the subscription only after the
\* provider's cancel call returned without user errors; once answered 200 the
\* subscription is CANCELLED and exactly one entry was appended, with action
\* 'subscription_cancelled' and not 'subscription_cancelled_by_shopify'.
C8_CancelAfterProvider ==
  \A r \in DOMAIN req :
    req[r].kind = "cancel"
      => /\ (subscriptions # req[r].pre.subscriptions
               => req[r].provider = "ok" /\ req[r].calls = 1)
         /\ (Done(r) /\ req[r].code = 200)
               => /\ subscriptions[req[r].payload.id].status = "CANCELLED"
                  /\ req[r].provider = "ok"
                  /\ Len(Appended(r)) = 1
                  /\ Appended(r)[1].action = "subscription_cancelled"
                  /\ CountAction(Appended(r), "subscription_cancelled_by_shopify") = 0

C8_Witness ==
  \E r \in DOMAIN req :
    /\ Done(r) /\ req[r].kind = "cancel" /\ req[r].code = 200
    /\ req[r].pre.subscriptions[req[r].payload.id].status = "ACTIVE"

\* a known event that was processed to the end
Processed(r) == Done(r) /\ KnownEvent(r) /\ req[r].code = 200

SpecialisedActions == {"subscription_activated", "subscription_cancelled_by_shopify"}

Redelivered(r) ==
  Done(r) /\ req[r].kind = "subscription_update" /\ req[r].replay # None

UnknownEvent(r) ==
  /\ req[r].kind = "subscription_update"
  /\ req[r].header # None /\ req[r].header.authentic
  /\ req[r].payload # None
  /\ req[r].pre.subscriptions[req[r].payload.id] = NoSub

FoundEvent(r) ==
  /\ req[r].kind = "subscription_update"
  /\ req[r].payload # None
  /\ req[r].found # None

\* every change of a stored status is the status write of one handler, and
\* leaves the mapped status of that handler's event
LastWriteWins ==
  [][\A s \in SubIds :
       (subscriptions[s] # NoSub /\ subscriptions'[s].status # subscriptions[s].status)
         => \E r \in DOMAIN req :
              /\ FoundEvent(r) /\ req[r].payload.id = s
              /\ req[r].pc = "sub_status" /\ req'[r].pc # "sub_status"
              /\ subscriptions'[s].status = C4_Table(req[r].payload.status)]_vars

NoHandlerFails ==
  \A r \in DOMAIN req : (FoundEvent(r) /\ Done(r)) => req[r].code = 200

\* C14: when several subscription-update webhooks for one subscription are
\* handled concurrently, under every interleaving the stored status is the
\* mapped status of the event whose status write was applied last, no
\* handler fails, and the status is never one that no delivered event carried.
C14_ConcurrentLastWriteWins == LastWriteWins /\ []NoHandlerFails
\* a verified uninstall, shop-update or theme-publish event naming a shop
\* domain without a local Shop record
UnknownShopEvent(r) ==
  /\ req[r].kind \in {"uninstalled", "shop_update", "themes_publish"}
  /\ req[r].header # None /\ req[r].header.authentic
  /\ req[r].shop # NoDomain
  /\ req[r].pre.shops[req[r].shop] = NoShop

\* C15: a verified uninstall, shop-update or theme-publish webhook naming a
\* shop domain that has no local Shop record is answered with a success
\* response and creates, changes or deletes no record; the shop-update
\* webhook creates no Shop.
C15_UnknownShopAcknowledged ==
  \A r \in DOMAIN req :
    UnknownShopEvent(r)
      => /\ db = req[r].pre
         /\ shops[req[r].shop] = NoShop
         /\ req[r].pc \in {"un_find", "shop_find", "theme_find", "done"}
         /\ Done(r) => req[r].code = 200 /\ req[r].resp = "success"

C15_Witness ==
  \E r \in DOMAIN req :
    /\ UnknownShopEvent(r) /\ Done(r) /\ req[r].kind = "shop_update"
    /\ \E d \in ShopDomains : shops[d] # NoShop
\* a verified uninstall event for a shop that had a local Shop record
KnownUninstall(r) ==
  /\ req[r].kind = "uninstalled"
  /\ req[r].header # None /\ req[r].header.authentic
  /\ req[r].shop # NoDomain
  /\ req[r].pre.shops[req[r].shop] # NoShop

\* nothing of the stores the purge deletes from has been touched
NothingDeleted(r) ==
  /\ sessions = req[r].pre.sessions
  /\ settings = req[r].pre.settings
  /\ subscriptions = req[r].pre.subscriptions
  /\ shops = req[r].pre.shops
  /\ SubSeq(auditLog, 1, Len(req[r].pre.auditLog)) = req[r].pre.auditLog

\* C16: in the uninstall handler the 'app_uninstalled' audit entry is written
\* before the first purge delete is issued: until the entry exists no
\* Session, AuditLog, Setting, Subscription or Shop record is deleted.
C16_LogBeforePurge ==
  \A r \in DOMAIN req :
    KnownUninstall(r)
      => /\ req[r].pc \in {"un_find", "un_audit"} => db = req[r].pre
         /\ req[r].pc = "un_sessions"
              => /\ NothingDeleted(r)
                 /\ Len(Appended(r)) = 1
                 /\ Appended(r)[1].action = "app_uninstalled"
                 /\ Appended(r)[1].shopId = req[r].shop
         /\ ~NothingDeleted(r)
              => req[r].pc \notin {"un_find", "un_audit", "un_sessions"}

C16_Witness ==
  \E r \in DOMAIN req :
    /\ KnownUninstall(r) /\ req[r].pc = "un_purge_logs"
    /\ OfflineSession(req[r].shop) \in req[r].pre.sessions
    /\ OfflineSession(req[r].shop) \notin sessions
    /\ CountAction(Appended(r), "app_uninstalled") = 1

\* C17: if a purge step of the uninstall handler fails, the handler attempts
\* to write a 'cleanup_failed' audit entry, a failure of that write is
\* swallowed, and the webhook is answered with a success response.
C17_PurgeFailureSwallowed ==
  \A r \in DOMAIN req :
    (KnownUninstall(r) /\ (req[r].pc = "un_failed" \/ req[r].provider = "cleanup_failed"))
      => /\ req[r].pc \in {"un_failed", "done"}
         /\ Done(r)
              => /\ req[r].code = 200
                 /\ req[r].resp = "App uninstalled and data cleaned up"
                 /\ shops[req[r].shop] # NoShop
                 /\ auditLog # <<>>
                      => auditLog[Len(auditLog)].action \in {"cleanup_failed", "app_uninstalled"}
                         \/ auditLog[Len(auditLog)].shopId # req[r].shop

C17_Witness ==
  \E r \in DOMAIN req :
    /\ KnownUninstall(r) /\ Done(r) /\ req[r].provider = "cleanup_failed"
    /\ auditLog = <<>>
    /\ OfflineSession(req[r].shop) \notin sessions
    /\ \E s \in SubIds : subscriptions[s].shopId = req[r].shop
\* a settings update that passed the shop parameter, session and shop lookup
AdmittedSettings(r) == req[r].kind = "settings" /\ req[r].found # None

\* a payload the PopupSettings schema does not admit
InvalidSettings(body) ==
  \/ body.message = ""
  \/ \E f \in {"bgColor", "textColor", "linkColor"} : body[f] \notin HexColors

\* C18: a settings-update request whose payload fails schema validation is
\* answered with status 400 and a non-empty field-level error list, and
\* neither the Setting records nor the AuditLog change.
C18_InvalidSettingsRejected ==
  \A r \in DOMAIN req :
    (AdmittedSettings(r) /\ InvalidSettings(req[r].payload))
      => /\ Done(r) /\ req[r].code = 400
         /\ req[r].resp = "Invalid settings data"
         /\ req[r].provider # {}
         /\ req[r].provider \subseteq {"message", "bgColor", "textColor", "linkColor"}
         /\ settings = req[r].pre.settings
         /\ auditLog = req[r].pre.auditLog

C18_Witness ==
  \E r \in DOMAIN req :
    /\ AdmittedSettings(r) /\ Done(r) /\ req[r].code = 400
    /\ req[r].payload.bgColor = "red" /\ req[r].provider = {"bgColor"}
    /\ ActiveSubs(req[r].found.id) # {}

\* C19: every settings-update request that passes authentication, shop
\* lookup and validation appends exactly one 'settings_updated' audit entry,
\* written after the settings are persisted, whose details record whether
\* the colour restriction was applied.
C19_SettingsUpdateLogged ==
  \A r \in DOMAIN req :
    (AdmittedSettings(r) /\ ~InvalidSettings(req[r].payload))
      => /\ Done(r)
              => /\ req[r].code = 200
                 /\ Len(Appended(r)) = 1
                 /\ Appended(r)[1].action = "settings_updated"
                 /\ Appended(r)[1].shopId = req[r].found.id
                 /\ Appended(r)[1].details
                      = IF HadActive(r) THEN [hasSubscription |-> TRUE]
                        ELSE [restrictedFeatures |-> {"custom_colors"}]
         /\ ~Done(r) => Appended(r) = <<>>
         /\ Appended(r) # <<>>
              => getShopSettings(req[r].found.id, "popup_settings")
                   = IF HadActive(r) THEN req[r].payload
                     ELSE [req[r].payload EXCEPT !.bgColor = DefaultBgColor,
                                                 !.textColor = DefaultTextColor,
                                                 !.linkColor = DefaultLinkColor]
         /\ req[r].pc = "settings_audit"
              => getShopSettings(req[r].found.id, "popup_settings").message
                   = req[r].payload.message

C19_Witness ==
  \E r \in DOMAIN req :
    /\ AdmittedSettings(r) /\ Done(r) /\ req[r].code = 200
    /\ HadActive(r) /\ req[r].payload.bgColor = "#ff0000"
    /\ Len(Appended(r)) = 1
\* a webhook request the handler let past its signature checks
PassedSignature(r) == req[r].payload # None

\* C20: a body signed under the application's secret verifies, the same body
\* signed under any other secret does not, and a request without a
\* signature header is never taken as authentic.
C20_VerifyRoundTrip ==
  \A r \in DOMAIN req :
    (req[r].kind \in WebhookKinds /\ req[r].header # None)
      => /\ req[r].header.authentic
              => /\ PassedSignature(r)
                 /\ verifyWebhookSignature(req[r].payload,
                      hmacBase64(req[r].payload, SHOPIFY_API_SECRET)) = "true"
                 /\ verifyWebhookSignature(req[r].payload,
                      hmacBase64(req[r].payload, OtherSecret)) = "false"
         /\ (req[r].header.len = DigestLen /\ ~req[r].header.authentic)
              => /\ ~PassedSignature(r) /\ Done(r) /\ req[r].code = 401
                 /\ req[r].resp = "Invalid webhook signature"
         /\ ~req[r].header.present
              => /\ ~PassedSignature(r) /\ Done(r) /\ req[r].code = 401
                 /\ req[r].resp = "Missing webhook signature"

C20_Witness ==
  \E r \in DOMAIN req :
    /\ req[r].kind = "themes_publish" /\ req[r].header # None
    /\ req[r].header.len = DigestLen /\ ~req[r].header.authentic
    /\ Done(r) /\ req[r].code = 401
    /\ \E d \in ShopDomains : shops[d] # NoShop
\* C21: if the shared webhook secret is not configured, the process fails
\* when lib/shopify.ts is first evaluated, and in that configuration no
\* webhook request is accepted as authentic or processed.
C21_NoSecretNoService ==
  ~env["SHOPIFY_API_SECRET"]
    => /\ loaded \in {"pending", "failed"}
       /\ EmptyDatabase
       /\ \A r \in DOMAIN req :
            req[r].kind \in WebhookKinds
              => /\ Done(r) /\ req[r].code = 500
                 /\ ~PassedSignature(r)

C21_Witness ==
  /\ ~env["SHOPIFY_API_SECRET"] /\ env["SHOPIFY_API_KEY"]
  /\ loaded = "failed"
  /\ \E r \in DOMAIN req :
       /\ req[r].kind = "uninstalled" /\ Done(r)
       /\ req[r].header.present /\ req[r].header.len = DigestLen
\* a verified theme-publish event for a shop that has a local Shop record
KnownThemeEvent(r) ==
  /\ req[r].kind = "themes_publish"
  /\ req[r].header # None /\ req[r].header.authentic
  /\ req[r].shop # NoDomain
  /\ req[r].pre.shops[req[r].shop] # NoShop

\* C22: a verified theme-publish event for a known shop records the theme
\* metadata and sets 'theme_change_notification' with acknowledged = false
\* only when the theme's role is 'main'; for any other role no Setting and
\* no AuditLog record changes.
C22_OnlyMainThemeRecorded ==
  \A r \in DOMAIN req :
    KnownThemeEvent(r)
      => LET D == req[r].shop
             flag == settings[<<D, "theme_change_notification">>]
         IN  /\ req[r].payload.role # "main"
                  => /\ settings = req[r].pre.settings
                     /\ auditLog = req[r].pre.auditLog
                     /\ req[r].pc \in {"theme_find", "done"}
                     /\ Done(r) => req[r].code = 200
             /\ flag # req[r].pre.settings[<<D, "theme_change_notification">>]
                  => /\ req[r].payload.role = "main"
                     /\ flag = [themeId |-> req[r].payload.id, acknowledged |-> FALSE]
             /\ (Done(r) /\ req[r].payload.role = "main")
                  => /\ req[r].code = 200
                     /\ settings[<<D, "theme_info">>] = [mainThemeId |-> req[r].payload.id]
                     /\ Len(Appended(r)) = 1
                     /\ Appended(r)[1].action = "theme_published"

C22_Witness ==
  \E r \in DOMAIN req :
    /\ KnownThemeEvent(r) /\ Done(r) /\ req[r].payload.role = "unpublished"
    /\ settings[<<req[r].shop, "popup_settings">>] # NoSetting
    /\ settings[<<req[r].shop, "theme_change_notification">>] = NoSetting
DismissingInputs == {"accept", "dismiss", "close", "escape"}

\* C23: for a dismissible popup, after the visitor dismisses it by the accept
\* button, the dismiss button, the close button or the Escape key, the popup
\* is hidden and the dismissal flag is stored; on every later page load the
\* popup is not shown while the flag remains stored.
C23_DismissalPersists ==
  /\ (widget.dismissible /\ last \in DismissingInputs)
       => /\ ~widget.isVisible /\ widget.ariaHidden = "true"
          /\ isDismissed(localStorage)
          /\ widget.timers = 0 => widget.display = "none"
  /\ (last = "load" /\ widget.container /\ widget.dismissible /\ isDismissed(localStorage))
       => ~widget.popup /\ ~widget.isVisible /\ widget.display = "none"
  /\ (last = "timer" /\ widget.dismissible /\ ~widget.isVisible /\ widget.timers = 0)
       => widget.display = "none"

C23_Witness ==
  /\ last = "load" /\ widget.container /\ widget.dismissible
  /\ isDismissed(localStorage) /\ ~widget.isVisible

\* C28: in every state reachable by show, hide, dismiss, reset and destroy
\* calls and firings of the delayed hide timer, isVisible = true implies that
\* the container is displayed and the popup's aria-hidden is 'false'.
C28_VisibleMeansDisplayed ==
  widget.isVisible => widget.display = "block" /\ widget.ariaHidden = "false"

\* C29: after resetPrivacyPopup() on a page whose popup container exists, the
\* stored dismissal flag is cleared and the popup is visible, whether it was
\* dismissed during this page load or before the page was loaded.
C29_ResetShowsPopup ==
  (last = "reset" /\ widget.container)
    => /\ ~isDismissed(localStorage)
       /\ widget.isVisible /\ widget.display = "block" /\ widget.ariaHidden = "false"

\* what C30 says of a state
NotDismissibleStates ==
  /\ (last = "accept" /\ ~widget.dismissible)
       => ~widget.isVisible /\ widget.ariaHidden = "true"
  /\ (last = "load" /\ widget.container /\ ~widget.dismissible)
       => /\ widget.popup /\ widget.isVisible
          /\ widget.display = "block" /\ widget.ariaHidden = "false"

\* what C30 says of a step
NotDismissibleSteps ==
  ~widget.dismissible
    => /\ localStorage' \subseteq localStorage
       /\ last' = "escape" => widget' = widget

\* C30: for a popup configured as not dismissible, no user action stores the
\* dismissal flag and the Escape key never hides the popup; the accept button
\* hides it for the current page only, and the popup is shown again on every
\* later page load.
C30_NotDismissible == []NotDismissibleStates /\ [][NotDismissibleSteps]_vars

C30_Witness ==
  /\ last = "load" /\ widget.container /\ ~widget.dismissible
  /\ isDismissed(localStorage) /\ widget.isVisible
\* ---------------------------------------------------------------- C24
\* a step that leaves every existing audit entry in place, unmodified, and
\* at most adds entries after them
AppendsOnly ==
  /\ Len(auditLog') >= Len(auditLog)
  /\ SubSeq(auditLog', 1, Len(auditLog)) = auditLog

\* the audit delete of an uninstall's purge: the purged shop's entries go,
\* the others stay as they are
PurgeOfUninstall ==
  \E r \in DOMAIN req :
    /\ req[r].kind = "uninstalled" /\ req[r].pc = "un_purge_logs"
    /\ auditLog' = SelectSeq(auditLog, LAMBDA e : e.shopId # req[r].found.id)

\* the pruning of an authorized cleanup job: the oldest entries go, the
\* others stay as they are
PruningOfCleanup ==
  \E r \in DOMAIN req :
    /\ Free(r) /\ req'[r].kind = "cleanup" /\ req'[r].code = 200
    /\ \E k \in 0..Len(auditLog) : auditLog' = SubSeq(auditLog, k + 1, Len(auditLog))

C25_WitnessNoDate ==
  \E r \in DOMAIN req :
    /\ Processed(r)
    /\ req[r].payload.billing_on = NoDate
    /\ req[r].pre.subscriptions[req[r].payload.id].currentPeriodEnd # NoDate

\* ---------------------------------------------------------------- C26
\* the request carries the configured cron secret as its bearer token
CorrectBearer(r) ==
  /\ env["CRON_SECRET"]
  /\ req[r].payload.authorization = "Bearer " \o CRON_SECRET

\* what a finished cleanup invocation has done, by its bearer token
CleanupOutcome(r) ==
  IF CorrectBearer(r)
  THEN /\ req[r].code = 200
       /\ sessions = {s \in req[r].pre.sessions : ~Expired(s, req[r].found.sessionsAt)}
       /\ auditLog = SelectSeq(req[r].pre.auditLog,
                               LAMBDA e : e.createdAt >= req[r].found.ninetyDaysAgo)
       /\ cleanupExpiredSessions(sessions, req[r].found.sessionsAt) = sessions
       /\ deleteOldLogs(auditLog, req[r].found.ninetyDaysAgo) = auditLog
  ELSE /\ req[r].code = 401
       /\ sessions = req[r].pre.sessions
       /\ auditLog = req[r].pre.auditLog

\* C26: a cleanup invocation with the correct bearer secret removes exactly
\* the sessions whose expiry is in the past and the audit entries older than
\* 90 days and answers with success, and a second run at once would remove
\* nothing more; an invocation without the correct bearer secret gets 401
\* and removes nothing.
C26_CleanupJob ==
  \A r \in DOMAIN req :
    (Done(r) /\ req[r].kind = "cleanup") => CleanupOutcome(r)

\* the same with a CRON_SECRET set in the environment
CleanupJobWithSecretSet ==
  \A r \in DOMAIN req :
    (Done(r) /\ req[r].kind = "cleanup" /\ env["CRON_SECRET"]) => CleanupOutcome(r)

\* an authorized run has removed an expired session and an old entry and
\* kept a live session and a recent entry
CleanupJobRemoves ==
  \E r \in DOMAIN req :
    /\ Done(r) /\ req[r].kind = "cleanup" /\ CorrectBearer(r)
    /\ Cardinality(req[r].pre.sessions) = 2 /\ Cardinality(sessions) = 1
    /\ Len(req[r].pre.auditLog) = 2 /\ Len(auditLog) = 1

====
